---------------------------- MODULE Spec2Model ----------------------------
(***************************************************************************)
(* State-machine model of the full-replacement StyledSelect widget of      *)
(* jquery.styledSelect.src.js (version 2.0.1).                             *)
(*                                                                         *)
(* One widget instance over one native <select>.  The <select>'s children  *)
(* (top-level <option>s and <optgroup>s of <option>s) are an input chosen  *)
(* in Init; every <option> carries an explicit value attribute and values  *)
(* are distinct, as in the README example.  Option texts are plain text,   *)
(* so option.text and div.html() yield the same string.                    *)
(*                                                                         *)
(* A jQuery object holding option rows is modelled as the set of the       *)
(* rows' positions in document order (1..N); the empty set is the empty    *)
(* jQuery object.                                                          *)
(*                                                                         *)
(* Specifications: Spec (one full-replacement widget under user events,    *)
(* native change / keyup events and the 'update' method), SpecExample (the *)
(* README's grouped <select>), SpecOptions (the page also rewrites the     *)
(* <select>'s options), SpecOverlay (an overlay-only widget) and SpecPage  *)
(* (initialisation calls on the <select>s of a page and window resizes),   *)
(* SpecCommit (a script also calls triggerValueChange directly) and        *)
(* SpecTwo (two full-replacement widgets on two <select>s of one page).    *)
(***************************************************************************)
EXTENDS Integers, Sequences, FiniteSets, TLC

\* ------------------------------------------------------------------ bounds
\* Largest number of elements (<option>s and <optgroup>s together) of a
\* generated <select>.
MaxNodes == 3

\* At most MaxSurfaces replacement containers are created on the page.
MaxSurfaces == 2

\* ------------------------------------------------------------- key codes
DOWN == 40
PAGE_DOWN == 34
UP == 38
PAGE_UP == 33
ENTER == 13
TAB == 9
ESCAPE == 27

\* The keys delivered to the widget: the seven it names and one other key.
Keys == {DOWN, PAGE_DOWN, UP, PAGE_UP, ENTER, TAB, ESCAPE, 65}
NavKeys == {DOWN, PAGE_DOWN, UP, PAGE_UP}

\* ------------------------------------------------------- option layouts
Min(S) == CHOOSE x \in S : \A y \in S : x <= y
Max(S) == CHOOSE x \in S : \A y \in S : x >= y

OptionItem(v, t) ==
    [kind |-> "option", value |-> v, text |-> t, label |-> "", opts |-> <<>>]
GroupItem(l, os) ==
    [kind |-> "optgroup", value |-> "", text |-> "", label |-> l, opts |-> os]

\* A shape is -1 for a top-level <option>, or g >= 0 for an <optgroup>
\* holding g <option>s.
Shapes == -1 .. (MaxNodes - 1)
ShapeCount(s) == IF s = -1 THEN 1 ELSE s

\* The number of <option>s before child i of a <select> of these shapes.
RECURSIVE ShapeOffset(_, _)
ShapeOffset(shapes, i) ==
    IF i <= 1 THEN 0
    ELSE ShapeOffset(shapes, i - 1) + ShapeCount(shapes[i - 1])

\* The number of elements of a <select> of these shapes.
ShapeNodes(shapes) ==
    ShapeOffset(shapes, Len(shapes) + 1)
        + Cardinality({ i \in 1 .. Len(shapes) : shapes[i] >= 0 })

GenValue(k) == "v" \o ToString(k)
GenText(k) == "Text " \o ToString(k)

LayoutOfShapes(shapes) ==
    [i \in 1 .. Len(shapes) |->
        LET off == ShapeOffset(shapes, i) IN
        IF shapes[i] = -1
        THEN OptionItem(GenValue(off + 1), GenText(off + 1))
        ELSE GroupItem("Group",
                 [j \in 1 .. shapes[i] |->
                     [value |-> GenValue(off + j), text |-> GenText(off + j)]])]

\* Every <select> of at most MaxNodes elements, its options valued and
\* labelled by their position in document order.
GeneratedLayouts ==
    { LayoutOfShapes(s) :
        s \in { t \in UNION { [1 .. n -> Shapes] : n \in 0 .. MaxNodes } :
                  ShapeNodes(t) <= MaxNodes } }

\* The example scenario of the specification: "", 3, 4, a group of 5 and 6,
\* and a trailing 2.
ExampleLayout ==
    << OptionItem("", ""),
       OptionItem("3", "An Option"),
       OptionItem("4", "Another Option"),
       GroupItem("G", << [value |-> "5", text |-> "Grouped A"],
                         [value |-> "6", text |-> "Grouped B"] >>),
       OptionItem("2", "Last Option") >>

\* Two adjacent groups of one option each.
TwoGroupsLayout == LayoutOfShapes(<< 1, 1 >>)

\* The <select>s the widget is initialised on.
WidgetLayouts == GeneratedLayouts \cup {TwoGroupsLayout}
Layouts == WidgetLayouts \cup {ExampleLayout}

\* The <option> elements of a layout in document order, each with the
\* position of its top-level ancestor (top) and its position inside its
\* group (sub, 0 for a top-level option).
RECURSIVE RowsOf(_)
RowsOf(layout) ==
    IF layout = <<>> THEN <<>>
    ELSE LET n == Len(layout)
             it == layout[n]
             before == RowsOf(SubSeq(layout, 1, n - 1))
         IN IF it.kind = "option"
            THEN Append(before, [value |-> it.value, text |-> it.text,
                                 top |-> n, sub |-> 0])
            ELSE before \o [j \in 1 .. Len(it.opts) |->
                               [value |-> it.opts[j].value,
                                text |-> it.opts[j].text,
                                top |-> n, sub |-> j]]

\* RowsOf of every layout, computed once.
RowsTable == [l \in Layouts |-> RowsOf(l)]
Rows(layout) == RowsTable[layout]

\* --------------------------------------------------- jQuery traversal
\* .find('div.option'): every option row of the container.
FindOptions(layout) == 1 .. Len(Rows(layout))

\* .find('div.option[value="v"]'): the rows whose value attribute is v.
FindByValue(layout, v) ==
    { k \in FindOptions(layout) : Rows(layout)[k].value = v }

\* .first() and .last() of a set of rows.
First(S) == IF S = {} THEN {} ELSE {Min(S)}
Last(S) == IF S = {} THEN {} ELSE {Max(S)}

\* option.next('div.option') / option.prev('div.option'): the sibling at
\* distance d (+1 or -1) of each row of S, when that sibling is an option
\* row.  Inside a group the sibling before the first option is the label.
SiblingOption(layout, S, d) ==
    LET R == Rows(layout) IN
    { k2 \in FindOptions(layout) : \E k \in S :
        \/ R[k].sub = 0 /\ R[k2].sub = 0 /\ R[k2].top = R[k].top + d
        \/ R[k].sub > 0 /\ R[k2].top = R[k].top /\ R[k2].sub = R[k].sub + d
                        /\ R[k2].sub > 0 }

\* option.next('div.optgroup') / option.prev('div.optgroup'): the groups
\* that are the sibling at distance d of a top-level row of S.
SiblingGroup(layout, S, d) ==
    LET R == Rows(layout) IN
    { g \in 1 .. Len(layout) :
        /\ layout[g].kind = "optgroup"
        /\ \E k \in S : R[k].sub = 0 /\ g = R[k].top + d }

\* option.parent('div.optgroup'): the groups holding a row of S.
ParentGroup(layout, S) ==
    LET R == Rows(layout) IN { R[k].top : k \in { j \in S : R[j].sub > 0 } }

\* group.next('div.optgroup') / group.prev('div.optgroup').
GroupSiblingGroup(layout, G, d) ==
    { g \in 1 .. Len(layout) : layout[g].kind = "optgroup" /\ (g - d) \in G }

\* group.next('div.option') / group.prev('div.option').
GroupSiblingOption(layout, G, d) ==
    LET R == Rows(layout) IN
    { k \in FindOptions(layout) : R[k].sub = 0 /\ (R[k].top - d) \in G }

\* group.find('div.option'): the option rows inside the groups of G.
GroupOptions(layout, G) ==
    LET R == Rows(layout) IN
    { k \in FindOptions(layout) : R[k].sub > 0 /\ R[k].top \in G }

\* .attr('value') and .html() of a jQuery object read its first element.
AttrValue(layout, S) ==
    IF S = {} THEN "undefined" ELSE Rows(layout)[Min(S)].value
Html(layout, S) ==
    IF S = {} THEN "" ELSE Rows(layout)[Min(S)].text

\* ----------------------------------------------- navigation targets
\* The search for key DOWN without its second step (entering the group that
\* follows a top-level option).
DownTargetWithoutGroupEntry(layout, cur) ==
    LET a == SiblingOption(layout, cur, 1)
        c == First(GroupOptions(layout,
                 GroupSiblingGroup(layout, ParentGroup(layout, cur), 1)))
        d == GroupSiblingOption(layout, ParentGroup(layout, cur), 1)
    IN IF a # {} THEN a ELSE IF c # {} THEN c ELSE d

\* key DOWN: the four-step search for the row after current_option.
DownTarget(layout, cur) ==
    LET a == SiblingOption(layout, cur, 1)
        b == First(GroupOptions(layout, SiblingGroup(layout, cur, 1)))
        c == First(GroupOptions(layout,
                 GroupSiblingGroup(layout, ParentGroup(layout, cur), 1)))
        d == GroupSiblingOption(layout, ParentGroup(layout, cur), 1)
    IN IF a # {} THEN a ELSE IF b # {} THEN b ELSE IF c # {} THEN c ELSE d

\* key UP: the mirrored search.
UpTarget(layout, cur) ==
    LET a == SiblingOption(layout, cur, -1)
        b == Last(GroupOptions(layout, SiblingGroup(layout, cur, -1)))
        c == Last(GroupOptions(layout,
                 GroupSiblingGroup(layout, ParentGroup(layout, cur), -1)))
        d == GroupSiblingOption(layout, ParentGroup(layout, cur), -1)
    IN IF a # {} THEN a ELSE IF b # {} THEN b ELSE IF c # {} THEN c ELSE d

\* children('div.option').last() in place of find('div.option').last(): the
\* last top-level option.
PageDownTargetTopLevel(layout) ==
    Last({ k \in FindOptions(layout) : Rows(layout)[k].sub = 0 })

\* key PAGE_DOWN and key PAGE_UP.
PageDownTarget(layout) == Last(FindOptions(layout))
PageUpTarget(layout) == First(FindOptions(layout))

\* new_option had the reserved branch ("implement searching") picked the
\* first option for every other key.
NewOptionSearching(layout, cur, which) ==
    IF which = DOWN THEN DownTarget(layout, cur)
    ELSE IF which = PAGE_DOWN THEN PageDownTarget(layout)
    ELSE IF which = UP THEN UpTarget(layout, cur)
    ELSE IF which = PAGE_UP THEN PageUpTarget(layout)
    ELSE First(FindOptions(layout))

\* new_option for a key of the navigation branch; the empty set stands
\* for null (any other key) as well as for an empty jQuery object.
NewOption(layout, cur, which) ==
    IF which = DOWN THEN DownTarget(layout, cur)
    ELSE IF which = PAGE_DOWN THEN PageDownTarget(layout)
    ELSE IF which = UP THEN UpTarget(layout, cur)
    ELSE IF which = PAGE_UP THEN PageUpTarget(layout)
    ELSE {}

\* --------------------------------------------------------------- state
VARIABLES
    select_options,       \* children of the native <select> (linked_select_box)
    selectedIndex,        \* its selected <option>, 1..N in document order; 0 = none
    options_div,          \* rows generated into replacement_options_div
    full_replacement,     \* full_replacement of initStyledSelect
    show,                 \* replacement_options_div has class 'show'
    highlight,            \* rows of replacement_options_div with class 'highlight'
    data_current_option,  \* data('current_option'): <<>> = absent, <<S>> = jQuery object S
    data_new_option,      \* data('new_option'):     <<>> = absent, <<S>> = jQuery object S
    display,              \* html of div.styled_select_option_display
    current_value,        \* this.current_value ("null" before the first sync)
    change_events,        \* 'change' events the last handler triggered on the <select>
    dispatched,           \* <<>>, or what a listener of that 'change' event finds when
                          \* it runs: the classes and data of replacement_options_div
                          \* and the <select>'s selected <option>
    event,                \* the event the last handler ran for
    nav_base,             \* history: <<>> or the snapshot taken at the first navigation
                          \* key of an unbroken run of navigation keys on an open list
    run,                  \* history: unbroken run of DOWN (UP) presses that began with the
                          \* first (last) option current and no candidate
    attrs,                \* per <select>: its data-styled-select-type and
                          \* data-styled-select-multiline attributes ("null" = absent)
    page,                 \* the document and the window: per <select> the replacement
                          \* containers inserted after it, its change / keyup handler
                          \* pairs and its data('styled_select'); the window's resize
                          \* handlers, by namespace, in the order they were bound
    innerHeight,          \* $(window).innerHeight()
    events_data,          \* $.data(window, 'events') returns the window's handlers
                          \* (jQuery 1.7) or undefined (jQuery 1.8)
    call,                 \* the last call of $.fn.styledSelectBox and whether it threw
    other                 \* <<>>, or << w >>: the <select>, rows, classes, data, display
                          \* and current_value of a second StyledSelect of the page (the
                          \* variables above are then those of the instance whose
                          \* handler ran last)

widget == << select_options, selectedIndex, options_div, show, highlight,
             data_current_option, data_new_option, display, current_value >>
vars == << select_options, selectedIndex, options_div, full_replacement, show,
           highlight, data_current_option, data_new_option, display,
           current_value, change_events, dispatched, event, nav_base,
           run, attrs, page, innerHeight, events_data, call, other >>
widget_vars == << select_options, selectedIndex, options_div, full_replacement,
                  show, highlight, data_current_option, data_new_option,
                  display, current_value, change_events, dispatched, event,
                  nav_base, run, other >>
page_vars == << attrs, page, innerHeight, events_data, call >>

\* The native control's options and the widget's rows, in document order.
NativeRows == Rows(select_options)
WidgetRows == Rows(options_div)
N == Len(WidgetRows)

\* The selected <option>'s value, as select.value reports it.
NativeValue == IF selectedIndex = 0 THEN "" ELSE NativeRows[selectedIndex].value

\* --------------------------------------------------- widget operations
\* setCurrentSelectedTextAndValue: the text and value the display and
\* current_value take when the selected <option> is the one at idx.
SelectedText(idx) == IF idx # 0 THEN NativeRows[idx].text ELSE display
SelectedValue(idx) == IF idx # 0 THEN NativeRows[idx].value ELSE current_value

\* A synchronisation that writes the display only.
setCurrentSelectedText ==
    /\ display' = SelectedText(selectedIndex')
    /\ current_value' = current_value

setCurrentSelectedTextAndValue ==
    /\ display' = SelectedText(selectedIndex')
    /\ current_value' = SelectedValue(selectedIndex')

\* linked_select_box.val(new_value): every <option> gets selected = (its value
\* is new_value), so the last matching option ends up selected.  When no
\* option matches, all are deselected and the browser either leaves none
\* selected or reselects the first option.
ValResult(new_value) ==
    LET m == FindByValue(select_options, new_value) IN
    IF m # {} THEN {Max(m)}
    ELSE IF NativeRows = <<>> THEN {0} ELSE {0, 1}

\* What the listeners of the 'change' event would find had
\* .trigger('change') been the last statement of triggerValueChange.
AtDispatchAfterClearing(idx) ==
    [selectedIndex |-> idx, shown |-> FALSE, highlight |-> {},
     candidate |-> <<>>, anchor |-> <<>>]

\* replacement_options_div and the <select> as the listeners of the 'change'
\* event of triggerValueChange find them: .val(new_value) has run, the
\* statements after .trigger('change') have not.
AtDispatch(idx) ==
    [selectedIndex |-> idx, shown |-> show, highlight |-> highlight,
     candidate |-> data_new_option, anchor |-> data_current_option]

\* triggerValueChange without the removeData('current_option').
triggerValueChangeKeepAnchor(new_value) ==
    /\ \E idx \in ValResult(new_value) : selectedIndex' = idx
    /\ change_events' = 1
    /\ dispatched' = << AtDispatch(selectedIndex') >>
    /\ setCurrentSelectedTextAndValue
    /\ highlight' = {}
    /\ data_new_option' = <<>>
    /\ show' = FALSE
    /\ UNCHANGED << select_options, options_div, data_current_option >>

triggerValueChange(new_value) ==
    /\ \E idx \in ValResult(new_value) : selectedIndex' = idx
    /\ change_events' = 1
    /\ dispatched' = << AtDispatch(selectedIndex') >>
    /\ setCurrentSelectedTextAndValue
    /\ highlight' = {}
    /\ data_current_option' = <<>>
    /\ data_new_option' = <<>>
    /\ show' = FALSE
    /\ UNCHANGED << select_options, options_div >>

\* A triggerIntermediaryChange that stores a candidate on a shown list only.
triggerIntermediaryChangeOnlyShown(current_option, new_option) ==
    /\ IF new_option # {} /\ show
       THEN /\ data_current_option' =
                   IF data_current_option = <<>> THEN << current_option >>
                   ELSE data_current_option
            /\ data_new_option' = << new_option >>
            /\ highlight' = new_option
            /\ display' = Html(options_div, new_option)
            /\ current_value' = AttrValue(options_div, new_option)
       ELSE UNCHANGED << data_current_option, data_new_option, highlight,
                         display, current_value >>
    /\ change_events' = 0 /\ dispatched' = <<>>
    /\ UNCHANGED << select_options, selectedIndex, options_div, show >>

\* A triggerIntermediaryChange without the new_option.length > 0 test.
triggerIntermediaryChangeUnguarded(current_option, new_option) ==
    /\ data_current_option' =
           IF data_current_option = <<>> THEN << current_option >>
           ELSE data_current_option
    /\ data_new_option' = << new_option >>
    /\ highlight' = IF show THEN new_option ELSE highlight
    /\ display' \in (IF new_option = {} THEN {"", display}
                      ELSE {Html(options_div, new_option)})
    /\ current_value' = AttrValue(options_div, new_option)
    /\ change_events' = 0 /\ dispatched' = <<>>
    /\ UNCHANGED << select_options, selectedIndex, options_div, show >>

\* A triggerIntermediaryChange that also selects the candidate in the
\* <select>.
triggerIntermediaryChangeSelects(current_option, new_option) ==
    /\ IF new_option # {}
       THEN /\ data_current_option' =
                   IF data_current_option = <<>> THEN << current_option >>
                   ELSE data_current_option
            /\ data_new_option' = << new_option >>
            /\ highlight' = IF show THEN new_option ELSE highlight
            /\ display' = Html(options_div, new_option)
            /\ current_value' = AttrValue(options_div, new_option)
            /\ \E idx \in ValResult(AttrValue(options_div, new_option)) :
                   selectedIndex' = idx
       ELSE UNCHANGED << data_current_option, data_new_option, highlight,
                         display, current_value, selectedIndex >>
    /\ change_events' = 0 /\ dispatched' = <<>>
    /\ UNCHANGED << select_options, options_div, show >>

triggerIntermediaryChange(current_option, new_option) ==
    /\ IF new_option # {}
       THEN /\ data_current_option' =
                   IF data_current_option = <<>> THEN << current_option >>
                   ELSE data_current_option
            /\ data_new_option' = << new_option >>
            /\ highlight' = IF show THEN new_option ELSE highlight
            /\ display' = Html(options_div, new_option)
            /\ current_value' = AttrValue(options_div, new_option)
       ELSE UNCHANGED << data_current_option, data_new_option, highlight,
                         display, current_value >>
    /\ change_events' = 0 /\ dispatched' = <<>>
    /\ UNCHANGED << select_options, selectedIndex, options_div, show >>

\* undoIntermediateChanges without the restoring of display and current_value.
undoWithoutRestore ==
    /\ IF show
       THEN /\ highlight' = {}
            /\ data_current_option' = <<>>
            /\ data_new_option' = <<>>
            /\ show' = FALSE
       ELSE UNCHANGED << highlight, data_current_option, data_new_option, show >>
    /\ change_events' = 0 /\ dispatched' = <<>>
    /\ UNCHANGED << select_options, selectedIndex, options_div, display,
                    current_value >>

\* An undoIntermediateChanges that acts only when an anchor is stored.
undoIntermediateChangesNeedsCandidate ==
    /\ IF show /\ data_current_option # <<>>
       THEN /\ display' \in
                  IF data_current_option[1] = {} THEN {"", display}
                  ELSE {Html(options_div, data_current_option[1])}
            /\ current_value' = AttrValue(options_div, data_current_option[1])
            /\ highlight' = {}
            /\ data_current_option' = <<>>
            /\ data_new_option' = <<>>
            /\ show' = FALSE
       ELSE UNCHANGED << display, current_value, highlight, data_current_option,
                         data_new_option, show >>
    /\ change_events' = 0 /\ dispatched' = <<>>
    /\ UNCHANGED << select_options, selectedIndex, options_div >>

\* .html(x.html()) with x empty empties the display or leaves it, by jQuery
\* version; with x non-empty it takes the first element's html.
undoIntermediateChanges ==
    /\ IF show
       THEN /\ IF data_current_option # <<>>
               THEN /\ display' \in
                          IF data_current_option[1] = {} THEN {"", display}
                          ELSE {Html(options_div, data_current_option[1])}
                    /\ current_value' = AttrValue(options_div, data_current_option[1])
               ELSE UNCHANGED << display, current_value >>
            /\ highlight' = {}
            /\ data_current_option' = <<>>
            /\ data_new_option' = <<>>
            /\ show' = FALSE
       ELSE UNCHANGED << display, current_value, highlight, data_current_option,
                         data_new_option, show >>
    /\ change_events' = 0 /\ dispatched' = <<>>
    /\ UNCHANGED << select_options, selectedIndex, options_div >>

\* addClass('show') in place of toggleClass('show').
addShow ==
    /\ show' = TRUE
    /\ change_events' = 0 /\ dispatched' = <<>>
    /\ UNCHANGED << select_options, selectedIndex, options_div, highlight,
                    data_current_option, data_new_option, display, current_value >>

\* A toggle that also drops the stored candidate and anchor when it hides
\* the list.
toggleShowAndDiscard ==
    /\ show' = ~show
    /\ data_current_option' = (IF show THEN <<>> ELSE data_current_option)
    /\ data_new_option' = (IF show THEN <<>> ELSE data_new_option)
    /\ change_events' = 0 /\ dispatched' = <<>>
    /\ UNCHANGED << select_options, selectedIndex, options_div, highlight,
                    display, current_value >>

\* The click branch for a target outside div.styled_select_options_container.
toggleShow ==
    /\ show' = ~show
    /\ change_events' = 0 /\ dispatched' = <<>>
    /\ UNCHANGED << select_options, selectedIndex, options_div, highlight,
                    data_current_option, data_new_option, display, current_value >>

NoEffect == change_events' = 0 /\ dispatched' = <<>> /\ UNCHANGED widget

\* ------------------------------------------------------ event handling
\* A keydown branch whose ENTER / TAB commits the current value when no
\* candidate is stored.
simulateKeydownEnterCommitsCurrent(which) ==
    LET current_option == FindByValue(options_div, current_value) IN
    IF which = ESCAPE THEN undoIntermediateChanges
    ELSE IF which \in {ENTER, TAB}
    THEN IF data_new_option # <<>>
         THEN triggerValueChange(AttrValue(options_div, data_new_option[1]))
         ELSE triggerValueChange(current_value)
    ELSE triggerIntermediaryChange(current_option,
                                   NewOption(options_div, current_option, which))

\* simulateSelectBoxEvent, event.type == 'keydown'.
simulateKeydown(which) ==
    LET current_option == FindByValue(options_div, current_value) IN
    IF which = ESCAPE THEN undoIntermediateChanges
    ELSE IF which \in {ENTER, TAB}
    THEN IF data_new_option # <<>>
         THEN triggerValueChange(AttrValue(options_div, data_new_option[1]))
         ELSE NoEffect
    ELSE triggerIntermediaryChange(current_option,
                                   NewOption(options_div, current_option, which))

\* A focusout branch that hides the list without looking for a candidate.
simulateFocusoutOnlyHides(hover) ==
    IF ~hover /\ show
    THEN /\ show' = FALSE
         /\ change_events' = 0 /\ dispatched' = <<>>
         /\ UNCHANGED << select_options, selectedIndex, options_div, highlight,
                         data_current_option, data_new_option, display,
                         current_value >>
    ELSE NoEffect

\* simulateSelectBoxEvent for 'focusout' without the :hover test of line 528.
simulateFocusoutIgnoresHover(hover) ==
    IF show
    THEN IF data_new_option # <<>>
         THEN triggerValueChange(AttrValue(options_div, data_new_option[1]))
         ELSE /\ show' = FALSE
              /\ change_events' = 0 /\ dispatched' = <<>>
              /\ UNCHANGED << select_options, selectedIndex, options_div, highlight,
                              data_current_option, data_new_option, display,
                              current_value >>
    ELSE NoEffect

\* simulateSelectBoxEvent, event.type == 'focusout'; hover is
\* replacement_options_div.is(':hover').
simulateFocusout(hover) ==
    IF ~hover /\ show
    THEN IF data_new_option # <<>>
         THEN triggerValueChange(AttrValue(options_div, data_new_option[1]))
         ELSE /\ show' = FALSE
              /\ change_events' = 0 /\ dispatched' = <<>>
              /\ UNCHANGED << select_options, selectedIndex, options_div, highlight,
                              data_current_option, data_new_option, display,
                              current_value >>
    ELSE NoEffect

\* A click branch that commits the stored candidate, when there is one, in
\* place of the clicked row.
simulateClickCommitsCandidate(target) ==
    IF target = 0 THEN toggleShow
    ELSE IF target > 0
    THEN triggerValueChange(AttrValue(options_div,
             IF data_new_option # <<>> THEN data_new_option[1] ELSE {target}))
    ELSE NoEffect

\* simulateSelectBoxEvent, event.type == 'click'.  target is 0 for an element
\* outside the options container, k in 1..N for option row k, and -1 for
\* another element of the container (a group label, a group, the container).
simulateClick(target) ==
    IF target = 0 THEN toggleShow
    ELSE IF target > 0
    THEN triggerValueChange(AttrValue(options_div, {target}))
    ELSE NoEffect

\* ------------------------------------------------- page and window
\* The <select> elements of the page, in document order.
Controls == {1, 2}

\* The values of the two data attributes: absent, the value the widget looks
\* for, or another value.
TypeAttrs == {"null", "full", "other"}
MultilineAttrs == {"null", "true"}

\* window.innerHeight values.
Heights == {600, 601}

\* The options map of an initialisation call: image_base null (absent) or a
\* path, and the two mode flags.
OptionMaps ==
    [image_base : {"null", "img"}, full_replacement : BOOLEAN, multiline : BOOLEAN]

\* var full_replacement of initStyledSelect, from the flag alone.
FullReplacementFlagOnly(flag, attr) == flag = TRUE

\* var full_replacement of initStyledSelect.
FullReplacement(flag, attr) == flag = TRUE \/ (attr # "null" /\ attr = "full")

\* var multiline of initStyledSelect.
Multiline(flag, attr) == flag = TRUE \/ (attr # "null" /\ attr = "true")

\* viewport_height / 2 rounded down to whole pixels.
HalfViewportFloor(h) == [px |-> h \div 2, half |-> 0]

\* viewport_height / 2 as JavaScript computes it: px whole pixels plus half
\* half-pixels (0 or 1).
HalfViewport(h) == [px |-> h \div 2, half |-> h % 2]

\* resizeOptions: every div.styled_select.styled-select-full-replacement of
\* the document gets the max-height on its options container.
resizeOptions(p, h) ==
    [p EXCEPT !.surfaces =
        [c \in Controls |->
            [k \in 1 .. Len(p.surfaces[c]) |->
                IF p.surfaces[c][k].full
                THEN [p.surfaces[c][k] EXCEPT !.max_height = << HalfViewport(h) >>]
                ELSE p.surfaces[c][k]]]]

\* The search of $.data(window, 'events') for the widget's resize handler:
\* it looks at definition[0], the first handler bound for 'resize'.
ResizeHandlerFound(p, api) ==
    api /\ p.window_resize # <<>> /\ p.window_resize[1] = "styledSelect"

\* initStyledSelect on <select> c, followed by the data('styled_select', ...)
\* of $.fn.styledSelectBox.
initStyledSelect(p, c, options, attr, api, h) ==
    LET full == FullReplacement(options.full_replacement, attr.type)
        multiline == Multiline(options.multiline, attr.multiline)
        surface == [full |-> full, multiline |-> multiline,
                    multiline_class |-> full /\ multiline, max_height |-> <<>>]
        p1 == [p EXCEPT !.surfaces[c] = Append(@, surface),
                        !.listeners[c] = @ + 1]
        p2 == IF full /\ ~ResizeHandlerFound(p1, api)
              THEN resizeOptions(
                       [p1 EXCEPT !.window_resize = Append(@, "styledSelect")], h)
              ELSE p1
    IN [p2 EXCEPT !.instance[c] = Len(p2.surfaces[c])]

\* this.each over the selection, in document order.
RECURSIVE InitEach(_, _, _, _, _, _)
InitEach(p, sel, options, at, api, h) ==
    IF sel = {} THEN p
    ELSE LET c == Min(sel) IN
         InitEach(initStyledSelect(p, c, options, at[c], api, h),
                  sel \ {c}, options, at, api, h)

\* An initialisation that goes on without image_base.
styledSelectBoxUnchecked(sel, options) ==
    /\ page' = InitEach(page, sel, options, attrs, events_data, innerHeight)
    /\ call' = [method |-> "init", sel |-> sel, options |-> options,
                thrown |-> FALSE]

\* $.fn.styledSelectBox(options) on the selection sel.
styledSelectBox(sel, options) ==
    IF options.image_base = "null"
    THEN /\ page' = page
         /\ call' = [method |-> "init", sel |-> sel, options |-> options,
                     thrown |-> TRUE]
    ELSE /\ page' = InitEach(page, sel, options, attrs, events_data, innerHeight)
         /\ call' = [method |-> "init", sel |-> sel, options |-> options,
                     thrown |-> FALSE]

\* A page on which nothing is initialised; other is whether another script
\* has bound a resize handler to the window.
EmptyPage(foreign) ==
    [surfaces |-> [c \in Controls |-> <<>>],
     listeners |-> [c \in Controls |-> 0],
     instance |-> [c \in Controls |-> 0],
     window_resize |-> IF foreign THEN << "other" >> ELSE <<>>]

NoCall == [method |-> "none", sel |-> {},
           options |-> [image_base |-> "null", full_replacement |-> FALSE,
                        multiline |-> FALSE],
           thrown |-> FALSE]

NoAttrs == [c \in Controls |-> [type |-> "null", multiline |-> "null"]]

\* The page of the single widget the event handlers are studied on: the
\* first <select> initialised in the given mode, jQuery 1.7.
PageOfWidget(full) ==
    /\ attrs = NoAttrs
    /\ innerHeight = 600
    /\ events_data = TRUE
    /\ page = initStyledSelect(EmptyPage(FALSE), 1,
                  [image_base |-> "img", full_replacement |-> full,
                   multiline |-> FALSE],
                  NoAttrs[1], TRUE, 600)
    /\ call = [method |-> "init", sel |-> {1},
               options |-> [image_base |-> "img", full_replacement |-> full,
                            multiline |-> FALSE],
               thrown |-> FALSE]

\* ---------------------------------------------------------- histories
\* An event as observed: what was delivered, and whether the list was shown
\* and which candidate was stored when it arrived.
Ev(type, which, target, hover) ==
    [type |-> type, which |-> which, target |-> target, hover |-> hover,
     shown |-> show, candidate |-> data_new_option]

IsKey(e, keys) == e.type = "keydown" /\ e.which \in keys

NoRun == [dir |-> "none", n |-> 0, closed |-> FALSE, entered |-> FALSE]
NoCandidate == data_new_option = <<>> /\ data_current_option = <<>>
CurrentOption == FindByValue(options_div, current_value)

\* The run of DOWN (UP) presses: it begins at a press made with no candidate
\* and the first (last) option current, grows with each further press of the
\* same key (counted up to N + 1), records an ENTER that follows it and ends
\* at any other event.
RunAfter(e) ==
    LET dir == IF IsKey(e, {DOWN}) THEN "down"
               ELSE IF IsKey(e, {UP}) THEN "up"
               ELSE "none"
    IN IF IsKey(e, {ENTER}) /\ run.dir # "none" /\ ~run.entered
       THEN [run EXCEPT !.entered = TRUE]
       ELSE IF dir = "none" THEN NoRun
       ELSE IF run.dir = dir /\ ~run.entered
            THEN [run EXCEPT !.n = IF run.n <= N THEN run.n + 1 ELSE run.n]
       ELSE IF /\ NoCandidate
               /\ N >= 1
               /\ CurrentOption = (IF dir = "down" THEN {1} ELSE {N})
            THEN [dir |-> dir, n |-> 1, closed |-> ~show, entered |-> FALSE]
       ELSE NoRun

\* The snapshot of an unbroken run of navigation keys that began on an open
\* list with no candidate: taken at the first key, kept by each further
\* navigation key and by the ESCAPE that ends the run, dropped by any other
\* event.
NavBaseAfter(e) ==
    IF IsKey(e, NavKeys)
    THEN IF nav_base # <<>> /\ ~IsKey(event, {ESCAPE}) THEN nav_base
         ELSE IF show /\ NoCandidate
              THEN << [native_value |-> NativeValue, display |-> display,
                       current_value |-> current_value] >>
              ELSE <<>>
    ELSE IF IsKey(e, {ESCAPE}) /\ ~IsKey(event, {ESCAPE}) THEN nav_base
    ELSE <<>>

\* The second instance after a handler of the first, had the handlers
\* addressed $('div.styled_select_options_container') of the whole document
\* where they remove the class 'show'.
OtherInstanceDocumentWide(o) ==
    [k \in 1 .. Len(o) |-> [o[k] EXCEPT !.show = FALSE]]

\* The second instance after a handler of the first: each handler is bound
\* through $.proxy to its own StyledSelect, and every element it reads or
\* writes is a property of this (replacement_options_div,
\* replacement_option_display, linked_select_box, current_value).
OtherInstance(o) == o

Observe(e) ==
    /\ event' = e
    /\ run' = RunAfter(e)
    /\ nav_base' = NavBaseAfter(e)
    /\ other' = OtherInstance(other)
    /\ UNCHANGED full_replacement
    /\ UNCHANGED page_vars

\* -------------------------------------------------------- specification
\* The widget right after initStyledSelect: rows generated from the <select>,
\* list hidden, nothing highlighted or stored, display synchronised.
InitWidget(layouts, full) ==
    /\ select_options \in layouts
    /\ options_div = (IF full THEN select_options ELSE <<>>)
    /\ full_replacement = full
    /\ selectedIndex \in (IF Rows(select_options) = <<>> THEN {0}
                          ELSE 1 .. Len(Rows(select_options)))
    /\ show = FALSE
    /\ highlight = {}
    /\ data_current_option = <<>>
    /\ data_new_option = <<>>
    /\ display = (IF selectedIndex = 0 THEN ""
                  ELSE Rows(select_options)[selectedIndex].text)
    /\ current_value = (IF selectedIndex = 0 THEN "null"
                        ELSE Rows(select_options)[selectedIndex].value)
    /\ change_events = 0
    /\ dispatched = <<>>
    /\ event = [type |-> "init", which |-> 0, target |-> 0, hover |-> FALSE,
                 shown |-> FALSE, candidate |-> <<>>]
    /\ nav_base = <<>>
    /\ run = NoRun

InitMode(layouts, full) ==
    InitWidget(layouts, full) /\ PageOfWidget(full) /\ other = <<>>

InitWith(layouts) == InitMode(layouts, TRUE)

\* Every click, keydown and focusout handler bound to the replacement
\* container, some of them always.
HandlersBoundAlways == TRUE

\* The click, keydown and focusout handlers are bound to the replacement
\* container of a full replacement only.
HandlersBound == full_replacement

KeyDown(which) ==
    /\ IF HandlersBound THEN simulateKeydown(which) ELSE NoEffect
    /\ Observe(Ev("keydown", which, 0, FALSE))

\* The pointer can hover the option list only while the list is shown.
FocusOut(hover) ==
    /\ hover => show
    /\ IF HandlersBound THEN simulateFocusout(hover) ELSE NoEffect
    /\ Observe(Ev("focusout", 0, 0, hover))

\* Elements of the options container can be clicked only while it is shown.
Click(target) ==
    /\ target # 0 => show
    /\ IF HandlersBound THEN simulateClick(target) ELSE NoEffect
    /\ Observe(Ev("click", 0, target, FALSE))

\* The native control's selection is set to its option idx and a 'change'
\* event is delivered to it: the widget's change.styledSelect handler runs.
NativeChange(idx) ==
    /\ selectedIndex' = idx
    /\ setCurrentSelectedTextAndValue
    /\ change_events' = 0 /\ dispatched' = <<>>
    /\ UNCHANGED << select_options, options_div, show, highlight,
                    data_current_option, data_new_option >>
    /\ Observe(Ev("change", 0, idx, FALSE))

\* The indices selectedIndex can take: an option of the <select>, or 0 (none)
\* when it has no option.
NativeIndices == IF NativeRows = <<>> THEN {0} ELSE 1 .. Len(NativeRows)

\* A key is released on the native control, whose selection the key may have
\* moved to its option idx: the widget's keyup.styledSelect handler runs.
NativeKeyup(idx) ==
    /\ selectedIndex' = idx
    /\ setCurrentSelectedTextAndValue
    /\ change_events' = 0 /\ dispatched' = <<>>
    /\ UNCHANGED << select_options, options_div, show, highlight,
                    data_current_option, data_new_option >>
    /\ Observe(Ev("keyup", 0, idx, FALSE))

\* An 'update' method that runs the resize method's code.
methodUpdateCallsResize == NoEffect

\* $(select).styledSelectBox('update') on an initialised control.
methodUpdate ==
    /\ selectedIndex' = selectedIndex
    /\ setCurrentSelectedTextAndValue
    /\ change_events' = 0 /\ dispatched' = <<>>
    /\ UNCHANGED << select_options, options_div, show, highlight,
                    data_current_option, data_new_option >>

Update ==
    /\ methodUpdate
    /\ Observe(Ev("update", 0, 0, FALSE))

Init == InitWith(WidgetLayouts)

Next ==
    \/ \E which \in Keys : KeyDown(which)
    \/ \E hover \in BOOLEAN : FocusOut(hover)
    \/ \E target \in -1 .. N : Click(target)
    \/ \E idx \in 1 .. Len(NativeRows) : NativeChange(idx)
    \/ \E idx \in NativeIndices : NativeKeyup(idx)
    \/ Update

Spec == Init /\ [][Next]_vars

\* The widget over the <select> of the example scenario, driven by the
\* user's keys, clicks and focus changes.
InitExample == InitWith({ExampleLayout})

NextExample ==
    \/ \E which \in Keys : KeyDown(which)
    \/ \E hover \in BOOLEAN : FocusOut(hover)
    \/ \E target \in -1 .. N : Click(target)

SpecExample == InitExample /\ [][NextExample]_vars

\* The page's script replaces the children of the <select> by those of
\* another layout, which leaves its option idx selected.  No handler of the
\* widget runs: it listens to change and keyup events only.
ChangeOptions(layout, idx) ==
    /\ layout # select_options
    /\ select_options' = layout
    /\ selectedIndex' = idx
    /\ change_events' = 0 /\ dispatched' = <<>>
    /\ UNCHANGED << options_div, show, highlight, data_current_option,
                    data_new_option, display, current_value >>
    /\ Observe(Ev("options", 0, idx, FALSE))

\* The indices selectedIndex can take in a <select> with the given children.
IndicesOf(layout) ==
    IF Rows(layout) = <<>> THEN {0} ELSE 1 .. Len(Rows(layout))

\* The lists of plain options (no group) the page's script writes.
PlainLayouts == { l \in GeneratedLayouts : \A k \in 1 .. Len(l) : l[k].kind = "option" }

\* The widget on a page whose script also rewrites the <select>'s options and
\* calls 'update' afterwards or not.
NextOptions ==
    \/ \E which \in Keys : KeyDown(which)
    \/ \E hover \in BOOLEAN : FocusOut(hover)
    \/ \E target \in -1 .. N : Click(target)
    \/ Update
    \/ \E layout \in PlainLayouts :
          \E idx \in IndicesOf(layout) : ChangeOptions(layout, idx)

SpecOptions == Init /\ [][NextOptions]_vars

\* A script calls triggerValueChange on the instance stored in
\* data('styled_select'), with the value of the widget's row k or, for k = 0,
\* with a value no row and no <option> has.
CommitCall(k) ==
    /\ triggerValueChange(IF k = 0 THEN "no such value" ELSE WidgetRows[k].value)
    /\ Observe(Ev("commit", 0, k, FALSE))

\* The widget under user events and direct commits.
NextCommit ==
    \/ \E which \in Keys : KeyDown(which)
    \/ \E hover \in BOOLEAN : FocusOut(hover)
    \/ \E target \in -1 .. N : Click(target)
    \/ \E k \in 0 .. N : CommitCall(k)

SpecCommit == Init /\ [][NextCommit]_vars

\* The widget of an overlay-only replacement: no option rows are generated,
\* and events reach a replacement container that has no handler bound.
InitOverlay == InitMode(WidgetLayouts, FALSE)

SpecOverlay == InitOverlay /\ [][Next]_vars

\* The resize handlers of the window run, in the order they were bound.
RECURSIVE RunResizeHandlers(_, _, _)
RunResizeHandlers(p, k, h) ==
    IF k > Len(p.window_resize) THEN p
    ELSE RunResizeHandlers(IF p.window_resize[k] = "styledSelect"
                           THEN resizeOptions(p, h) ELSE p,
                           k + 1, h)

SurfaceCount(p) ==
    LET RECURSIVE Sum(_)
        Sum(S) == IF S = {} THEN 0
                  ELSE Len(p.surfaces[Min(S)]) + Sum(S \ {Min(S)})
    IN Sum(Controls)

\* A script calls $(sel).styledSelectBox(options) on a non-empty selection.
PluginInit(sel, options) ==
    /\ SurfaceCount(page) + Cardinality(sel) <= MaxSurfaces
    /\ styledSelectBox(sel, options)
    /\ UNCHANGED << attrs, innerHeight, events_data >>
    /\ UNCHANGED widget_vars

\* The window is resized to height h and its resize handlers run.
WindowResize(h) ==
    /\ innerHeight' = h
    /\ page' = RunResizeHandlers(page, 1, h)
    /\ call' = [NoCall EXCEPT !.method = "window resize"]
    /\ UNCHANGED << attrs, events_data >>
    /\ UNCHANGED widget_vars

\* The widgets of a page: initialisation calls on selections of its <select>
\* elements and resizes of the window, under either jQuery version and with
\* or without another script's resize handler on the window.  The state of
\* the event handlers is left out: its variables stay those of a widget over
\* a <select> without options.
InitPage ==
    /\ InitWidget({<<>>}, TRUE)
    /\ attrs \in [Controls -> [type : TypeAttrs, multiline : MultilineAttrs]]
    /\ innerHeight = 600
    /\ events_data \in BOOLEAN
    /\ \E foreign \in BOOLEAN : page = EmptyPage(foreign)
    /\ call = NoCall
    /\ other = <<>>

NextPage ==
    \/ \E sel \in (SUBSET Controls) \ {{}} :
          \E options \in OptionMaps : PluginInit(sel, options)
    \/ \E h \in Heights : WindowResize(h)

SpecPage == InitPage /\ [][NextPage]_vars

\* ------------------------------------------------------ two instances
\* The <select>, rows, classes, data, display and current_value of the
\* instance the variables describe.
ThisInstance ==
    [select_options |-> select_options, selectedIndex |-> selectedIndex,
     options_div |-> options_div, show |-> show, highlight |-> highlight,
     data_current_option |-> data_current_option,
     data_new_option |-> data_new_option, display |-> display,
     current_value |-> current_value]

\* The next event is for the second instance: from here on the variables
\* describe it, and other holds the instance they described.
SwitchInstance ==
    /\ other # <<>>
    /\ select_options' = other[1].select_options
    /\ selectedIndex' = other[1].selectedIndex
    /\ options_div' = other[1].options_div
    /\ show' = other[1].show
    /\ highlight' = other[1].highlight
    /\ data_current_option' = other[1].data_current_option
    /\ data_new_option' = other[1].data_new_option
    /\ display' = other[1].display
    /\ current_value' = other[1].current_value
    /\ other' = << ThisInstance >>
    /\ change_events' = 0 /\ dispatched' = <<>>
    /\ event' = [type |-> "switch", which |-> 0, target |-> 0, hover |-> FALSE,
                 shown |-> other[1].show,
                 candidate |-> other[1].data_new_option]
    /\ run' = NoRun
    /\ nav_base' = <<>>
    /\ UNCHANGED full_replacement
    /\ UNCHANGED page_vars

\* A page of two full-replacement widgets, each on its own <select> of two
\* groups, after one call $('select').styledSelectBox({...}).
InitTwo ==
    /\ InitWidget({TwoGroupsLayout}, TRUE)
    /\ \E idx \in 1 .. Len(Rows(TwoGroupsLayout)) :
          other = << [select_options |-> TwoGroupsLayout,
                      selectedIndex |-> idx,
                      options_div |-> TwoGroupsLayout,
                      show |-> FALSE, highlight |-> {},
                      data_current_option |-> <<>>,
                      data_new_option |-> <<>>,
                      display |-> Rows(TwoGroupsLayout)[idx].text,
                      current_value |-> Rows(TwoGroupsLayout)[idx].value] >>
    /\ attrs = NoAttrs
    /\ innerHeight = 600
    /\ events_data = TRUE
    /\ LET options == [image_base |-> "img", full_replacement |-> TRUE,
                       multiline |-> FALSE]
       IN /\ page = InitEach(EmptyPage(FALSE), Controls, options, NoAttrs, TRUE, 600)
          /\ call = [method |-> "init", sel |-> Controls, options |-> options,
                     thrown |-> FALSE]

NextTwo == Next \/ SwitchInstance

SpecTwo == InitTwo /\ [][NextTwo]_vars

\* ------------------------------------------------ interaction states
Closed == ~show /\ NoCandidate
OpenNoCandidate == show /\ NoCandidate
OpenCandidate == show /\ data_new_option # <<>> /\ data_current_option # <<>>

\* The event just handled arrived in state Open-Candidate.
FromOpenCandidate == event.shown /\ event.candidate # <<>>
FromOpenNoCandidate == event.shown /\ event.candidate = <<>>

\* ------------------------------------------------------------- claims
\* C1: ESCAPE pressed after an unbroken run of one or more DOWN / UP /
\* PAGE_DOWN / PAGE_UP presses on an opened list leaves the native value,
\* the displayed text and the current value as they were before the first
\* of those presses, with the list closed and no candidate or anchor.
CancelRoundTrip ==
    (IsKey(event, {ESCAPE}) /\ nav_base # <<>>) =>
        /\ NativeValue = nav_base[1].native_value
        /\ display = nav_base[1].display
        /\ current_value = nav_base[1].current_value
        /\ ~show
        /\ NoCandidate

\* C1 witness: ESCAPE was handled in Open-Candidate at the end of such a run.
CancelRoundTripWitness ==
    /\ IsKey(event, {ESCAPE})
    /\ nav_base # <<>>
    /\ FromOpenCandidate
    /\ AttrValue(options_div, event.candidate[1]) # current_value

\* The value of the candidate stored in c (<<>> or <<S>>), "" when absent.
CandidateValue(c) == IF c = <<>> THEN "" ELSE AttrValue(options_div, c[1])
CandidateIs(v) == data_new_option # <<>> /\ CandidateValue(data_new_option) = v

\* C2: ENTER or TAB handled in Open-Candidate sets the native value to the
\* candidate's value and the display to its text, closes the list and
\* leaves no candidate, no anchor and no highlighted row.
EnterOrTabCommitsCandidate ==
    (IsKey(event, {ENTER, TAB}) /\ FromOpenCandidate) =>
        /\ NativeValue = CandidateValue(event.candidate)
        /\ display = Html(options_div, event.candidate[1])
        /\ ~show
        /\ NoCandidate
        /\ highlight = {}

\* C2 witness: ENTER or TAB was handled in Open-Candidate and committed a
\* candidate that was not the selected option.
EnterOrTabCommitsCandidateWitness ==
    /\ IsKey(event, {ENTER, TAB})
    /\ FromOpenCandidate
    /\ change_events = 1
    /\ NativeValue = CandidateValue(event.candidate)

\* C3: a click on an option row of the shown list, with or without a
\* candidate, commits that row's value (and no other), closes the list and
\* clears candidate and anchor in that one transition.
OptionClickCommitsRow ==
    (event.type = "click" /\ event.target > 0 /\ event.shown) =>
        /\ NativeValue = WidgetRows[event.target].value
        /\ display = WidgetRows[event.target].text
        /\ change_events = 1
        /\ ~show
        /\ NoCandidate

\* C3 witness: an option row was clicked in Open-Candidate while another
\* row was the candidate.
OptionClickCommitsRowWitness ==
    /\ event.type = "click"
    /\ event.target > 0
    /\ FromOpenCandidate
    /\ event.candidate[1] # {event.target}
    /\ ~show

\* C4: after k DOWN presses that began with the first option current, the
\* current option is option k + 1, and the last option from press N - 1 on.
DownRunReachesLast ==
    (run.dir = "down" /\ ~run.entered) =>
        CurrentOption = {IF run.n + 1 <= N THEN run.n + 1 ELSE N}

\* C5: after k UP presses that began with the last option current, the
\* current option is option N - k, and the first option from press N - 1 on.
UpRunReachesFirst ==
    (run.dir = "up" /\ ~run.entered) =>
        CurrentOption = {IF N - run.n >= 1 THEN N - run.n ELSE 1}

\* C6: whatever the current option and the groups, one PAGE_DOWN press makes
\* the candidate the last option in document order and one PAGE_UP press
\* makes it the first.
PageKeysJump ==
    /\ (IsKey(event, {PAGE_DOWN}) /\ N >= 1) =>
          /\ data_new_option = << {N} >>
          /\ current_value = WidgetRows[N].value
          /\ display = WidgetRows[N].text
    /\ (IsKey(event, {PAGE_UP}) /\ N >= 1) =>
          /\ data_new_option = << {1} >>
          /\ current_value = WidgetRows[1].value
          /\ display = WidgetRows[1].text

\* C6 witness: PAGE_DOWN was pressed while the candidate was the first
\* option and the last option is inside a group.
PageKeysJumpWitness ==
    /\ IsKey(event, {PAGE_DOWN})
    /\ N >= 2
    /\ event.candidate = << {1} >>
    /\ WidgetRows[N].sub > 0
    /\ data_new_option = << {N} >>

\* C7 as stated: on the example <select>, closed with "" current, the first
\* DOWN press opens the list, the third leaves candidate 4, the fourth
\* candidate 5, and ENTER then commits 5 with display text "Grouped A".
ExampleScenarioAsStated ==
    (run.dir = "down" /\ run.closed) =>
        /\ ~run.entered => show
        /\ (run.n = 3 /\ ~run.entered) => CandidateIs("4")
        /\ (run.n = 4 /\ ~run.entered) => CandidateIs("5")
        /\ (run.n = 4 /\ run.entered) =>
               NativeValue = "5" /\ display = "Grouped A"

\* C7 amended: the DOWN presses leave the list closed; the second leaves
\* candidate 4, the third candidate 5 (the first option of the group), and
\* ENTER then commits 5 with display text "Grouped A".
ExampleScenarioOnClosedList ==
    (run.dir = "down" /\ run.closed) =>
        /\ ~run.entered => ~show
        /\ (run.n = 2 /\ ~run.entered) => CandidateIs("4")
        /\ (run.n = 3 /\ ~run.entered) =>
               CandidateIs("5") /\ display = "Grouped A"
        /\ (run.n = 3 /\ run.entered) =>
               NativeValue = "5" /\ display = "Grouped A" /\ Closed

\* C7 witness: ENTER was pressed after three DOWN presses made on the closed
\* list from the first option, and 5 is committed.
ExampleScenarioWitness ==
    /\ options_div = ExampleLayout
    /\ run = [dir |-> "down", n |-> 3, closed |-> TRUE, entered |-> TRUE]
    /\ NativeValue = "5"

ClickedOutside(e) == e.type = "click" /\ e.target = 0

\* C8: a click outside the options container takes Closed to
\* Open-NoCandidate and Open-NoCandidate to Closed, and leaves the native
\* value and the displayed text unchanged.
OutsideClickToggles ==
    [][ (ClickedOutside(event') /\ (Closed \/ OpenNoCandidate)) =>
            /\ Closed => OpenNoCandidate'
            /\ OpenNoCandidate => Closed'
            /\ NativeValue' = NativeValue
            /\ display' = display ]_vars

\* C8 witness: a click outside the options container closed a list that was
\* open without a candidate.
OutsideClickTogglesWitness ==
    ClickedOutside(event) /\ FromOpenNoCandidate /\ Closed

\* C9 as stated: a click outside the option rows in Open-Candidate closes
\* the list without committing and leaves no candidate and no anchor.
OutsideClickDiscardsCandidate ==
    [][ (ClickedOutside(event') /\ OpenCandidate) =>
            /\ ~show'
            /\ NativeValue' = NativeValue
            /\ change_events' = 0
            /\ NoCandidate' ]_vars

\* C9 amended: a click outside the option rows in Open-Candidate closes the
\* list without committing and keeps the candidate and the anchor, the
\* displayed candidate text, the current value and the highlight as they are.
OutsideClickKeepsCandidate ==
    [][ (ClickedOutside(event') /\ OpenCandidate) =>
            /\ ~show'
            /\ NativeValue' = NativeValue
            /\ change_events' = 0
            /\ UNCHANGED << data_new_option, data_current_option, display,
                            current_value, highlight >> ]_vars

\* C9 witness: the list was closed by an outside click in Open-Candidate and
\* the candidate is still stored.
OutsideClickKeepsCandidateWitness ==
    /\ ClickedOutside(event)
    /\ FromOpenCandidate
    /\ ~show
    /\ data_new_option = event.candidate
    /\ data_current_option # <<>>

\* C10: a focusout received while the pointer does not hover the option list
\* closes an Open-NoCandidate list with the native value unchanged, and in
\* Open-Candidate commits the candidate, closes the list and clears
\* candidate and anchor.
FocusoutClosesOrCommits ==
    [][ (event'.type = "focusout" /\ ~event'.hover) =>
            /\ OpenNoCandidate =>
                  Closed' /\ NativeValue' = NativeValue /\ change_events' = 0
            /\ OpenCandidate =>
                  /\ NativeValue' = CandidateValue(data_new_option)
                  /\ change_events' = 1
                  /\ Closed' ]_vars

\* C10 witness: a focusout without hover arrived in Open-Candidate and the
\* candidate, which was not the selected option, is now selected.
FocusoutClosesOrCommitsWitness ==
    /\ event.type = "focusout"
    /\ ~event.hover
    /\ FromOpenCandidate
    /\ change_events = 1
    /\ NativeValue = CandidateValue(event.candidate)
    /\ Closed


\* The event just handled was a change or keyup event of the native control.
NativeEventHandled == event.type \in {"change", "keyup"}

\* The display and the current value are those of the selected <option>.
SyncedWithNative ==
    selectedIndex # 0 => /\ display = NativeRows[selectedIndex].text
                         /\ current_value = NativeValue

\* C11 as stated: a change or keyup event on the native control, received in
\* Closed, Open-NoCandidate or Open-Candidate, results in state Closed with
\* the display and the current value equal to the text and value of the
\* native control's selected option.
NativeEventEndsClosed == NativeEventHandled => Closed /\ SyncedWithNative

\* C11, amended: a change or keyup event on the native control, received in
\* any state, makes the display and the current value equal to the text and
\* value of the native control's selected option (when it has one) and
\* leaves the list shown or hidden, the highlight, the candidate and the
\* anchor as they were.
NativeEventSyncsOnly ==
    [][ event'.type \in {"change", "keyup"} =>
            /\ SyncedWithNative'
            /\ UNCHANGED << show, highlight, data_current_option,
                            data_new_option >> ]_vars

NativeEventSyncsOnlyWitness ==
    /\ NativeEventHandled
    /\ FromOpenCandidate
    /\ OpenCandidate
    /\ selectedIndex # 0
    /\ display = NativeRows[selectedIndex].text
    /\ AttrValue(options_div, data_new_option[1]) # NativeValue

\* C12: in every reachable state of a full-replacement widget, after any
\* sequence of click, keydown, focusout and native change events, the
\* candidate and the anchor are either both present or both absent.
CandidateAnchorTogether ==
    (data_new_option = <<>>) <=> (data_current_option = <<>>)

CandidateAnchorTogetherWitness ==
    /\ event.type = "change"
    /\ event.candidate # <<>>
    /\ data_new_option # <<>>
    /\ data_current_option # <<>>
    /\ full_replacement

OverlayMirrorsOnChangeOnly ==
    [][ /\ ~show' /\ NoCandidate'
        /\ display' # display => event'.type = "change"
        /\ event'.type = "change" =>
               display' = NativeRows'[selectedIndex'].text ]_vars

\* C18, amended: an overlay-only widget never shows an option list and never
\* holds a candidate, an anchor or a highlight; click, keydown and focusout
\* events on its replacement container change nothing; its only transition
\* is the synchronisation that the native control's change and keyup events
\* and the 'update' method run, which writes the selected option's text into
\* the display and its value into the current value.
OverlayOnlyMirrors ==
    [][ /\ ~show' /\ NoCandidate' /\ highlight' = {}
        /\ event'.type \in {"click", "keydown", "focusout"} => UNCHANGED widget
        /\ event'.type \in {"change", "keyup", "update"} => SyncedWithNative'
      ]_vars

OverlayOnlyMirrorsWitness ==
    /\ ~full_replacement
    /\ event.type = "keyup"
    /\ selectedIndex = 2
    /\ display = NativeRows[2].text
    /\ current_value = NativeRows[2].value
    /\ ~show

\* C19: the 'update' method makes the display and the current value equal to
\* the text and value of the native control's selected option, and a second
\* 'update' with no change in between leaves the widget's state unchanged.
UpdateSyncsOnce ==
    [][ event'.type = "update" =>
            /\ SyncedWithNative'
            /\ event.type = "update" => UNCHANGED widget ]_vars

UpdateSyncsOnceWitness ==
    /\ event.type = "update"
    /\ event.candidate # <<>>
    /\ selectedIndex # 0
    /\ AttrValue(options_div, event.candidate[1]) # NativeValue
    /\ display = NativeRows[selectedIndex].text
    /\ current_value = NativeValue

\* C14: in every reachable state, including after commits, cancels and
\* changes to the native control's options, the committed value (the native
\* control's value) is the value of one of the widget's option rows, or the
\* empty value.
CommittedValueIsAnOption ==
    NativeValue \in { WidgetRows[k].value : k \in 1 .. N } \cup {""}

\* C15: an initialisation call whose options have no image_base throws and
\* creates nothing: no replacement container, no listener on a <select> and
\* no attached instance, for every <select> of the selection.
NoImageBaseCreatesNothing ==
    [][ (call'.method = "init" /\ call'.options.image_base = "null") =>
            /\ call'.thrown
            /\ page' = page
            /\ \A c \in call'.sel :
                  /\ Len(page'.surfaces[c]) = Len(page.surfaces[c])
                  /\ page'.listeners[c] = page.listeners[c]
                  /\ page'.instance[c] = page.instance[c] ]_vars

NoImageBaseCreatesNothingWitness ==
    /\ call.method = "init"
    /\ call.thrown
    /\ call.sel = Controls
    /\ \A c \in Controls : /\ page.surfaces[c] = <<>>
                            /\ page.listeners[c] = 0
                            /\ page.instance[c] = 0

\* The widget's resize handlers bound to the window.
StyledSelectResizeHandlers ==
    { k \in 1 .. Len(page.window_resize) : page.window_resize[k] = "styledSelect" }

\* C16: for every number of full-replacement widgets initialised, in any
\* order and whatever other resize handlers are bound to the window, at most
\* one styledSelect resize handler is bound to the window.
AtMostOneResizeHandler == Cardinality(StyledSelectResizeHandlers) <= 1

\* The full-replacement containers of the document.
FullSurfaces ==
    { << c, k >> \in Controls \X (1 .. MaxSurfaces) :
          k <= Len(page.surfaces[c]) /\ page.surfaces[c][k].full }

\* C17: after a resize of the window has been handled, the max-height of
\* the option list of every full-replacement container is exactly half of
\* the new viewport height.
ResizeHalvesViewport ==
    call.method = "window resize" =>
        \A s \in FullSurfaces :
            LET m == page.surfaces[s[1]][s[2]].max_height IN
            m # <<>> /\ 2 * m[1].px + m[1].half = innerHeight

ResizeHalvesViewportWitness ==
    /\ call.method = "window resize"
    /\ innerHeight = 601
    /\ \A c \in Controls :
          /\ page.instance[c] # 0
          /\ page.surfaces[c][page.instance[c]].full
          /\ page.surfaces[c][page.instance[c]].max_height =
                 << [px |-> 300, half |-> 1] >>

\* C20: a <select> whose data-styled-select-type attribute is 'full' gets a
\* full-replacement widget, and one whose data-styled-select-multiline
\* attribute is 'true' a multiline one, whatever the flags of the options;
\* otherwise the full_replacement (multiline) flag alone decides.
ModeResolution ==
    (call.method = "init" /\ ~call.thrown) =>
        \A c \in call.sel :
            LET s == page.surfaces[c][Len(page.surfaces[c])] IN
            /\ s.full = IF attrs[c].type = "full" THEN TRUE
                         ELSE call.options.full_replacement
            /\ s.multiline = IF attrs[c].multiline = "true" THEN TRUE
                              ELSE call.options.multiline

ModeResolutionWitness ==
    /\ call.method = "init"
    /\ ~call.thrown
    /\ call.sel = Controls
    /\ ~call.options.full_replacement
    /\ attrs[1].type = "full"
    /\ attrs[2].type = "other"
    /\ page.surfaces[1][1].full
    /\ ~page.surfaces[2][1].full


\* C21 as stated: in state Open-NoCandidate, ESCAPE is a no-op: the list
\* stays shown and the native value, the displayed text and the absent
\* candidate and anchor are unchanged.
EscapeWithoutCandidateIsNoOp ==
    [][ (OpenNoCandidate /\ IsKey(event', {ESCAPE})) =>
            (change_events' = 0 /\ UNCHANGED widget) ]_vars

\* C21, amended: in state Open-NoCandidate, ESCAPE hides the list and
\* changes nothing else: the native value, the displayed text and the
\* current value are unchanged, candidate and anchor stay absent, nothing is
\* highlighted and no change event is fired.
EscapeWithoutCandidateCloses ==
    [][ (OpenNoCandidate /\ IsKey(event', {ESCAPE})) =>
            /\ ~show' /\ NoCandidate' /\ highlight' = {}
            /\ change_events' = 0
            /\ UNCHANGED << select_options, selectedIndex, options_div,
                            display, current_value >> ]_vars

EscapeWithoutCandidateClosesWitness ==
    /\ IsKey(event, {ESCAPE})
    /\ FromOpenNoCandidate
    /\ Closed
    /\ N >= 2

\* C22: in state Open-NoCandidate, ENTER or TAB changes nothing: the list
\* stays shown, the native value is unchanged and no change event is fired.
EnterWithoutCandidateIsNoOp ==
    [][ (OpenNoCandidate /\ IsKey(event', {ENTER, TAB})) =>
            (change_events' = 0 /\ UNCHANGED widget) ]_vars

EnterWithoutCandidateIsNoOpWitness ==
    /\ IsKey(event, {ENTER, TAB})
    /\ FromOpenNoCandidate
    /\ OpenNoCandidate
    /\ change_events = 0
    /\ N >= 2

\* C25: for a <select> with no option, DOWN, UP, PAGE_DOWN, PAGE_UP, ENTER and
\* TAB change nothing: no candidate and no anchor is stored, nothing is
\* highlighted, and the native value and the displayed text stay what they
\* were at initialisation (no option selected, empty text).
NoOptionsNoNavigation ==
    /\ (N = 0 /\ NativeRows = <<>>) =>
           /\ NoCandidate /\ highlight = {}
           /\ selectedIndex = 0 /\ NativeValue = ""
           /\ display = "" /\ current_value = "null"
           /\ change_events = 0
    /\ (N = 0 /\ IsKey(event, NavKeys \cup {ENTER, TAB})) => show = event.shown

NoOptionsNoNavigationWitness ==
    /\ N = 0
    /\ options_div # <<>>
    /\ full_replacement
    /\ IsKey(event, NavKeys)
    /\ show

\* C26 as stated: a DOWN, UP, PAGE_DOWN or PAGE_UP press leaves the native
\* value unchanged and fires no change event, and changes nothing but the
\* displayed text, the highlight and the candidate.
NavigationChangesCandidateOnly ==
    [][ IsKey(event', NavKeys) =>
            /\ change_events' = 0
            /\ UNCHANGED << select_options, selectedIndex, options_div, show,
                            data_current_option, current_value >> ]_vars

\* C26, amended: a DOWN, UP, PAGE_DOWN or PAGE_UP press leaves the native
\* control's selection and value unchanged, fires no change event and leaves
\* the list shown or hidden as it was; it changes only the displayed text,
\* the widget's current value, the highlight, the candidate and, when none
\* was stored, the anchor.
NavigationKeepsNativeValue ==
    [][ IsKey(event', NavKeys) =>
            /\ change_events' = 0
            /\ NativeValue' = NativeValue
            /\ UNCHANGED << select_options, selectedIndex, options_div, show >>
            /\ data_current_option # <<>> => UNCHANGED data_current_option
      ]_vars

NavigationKeepsNativeValueWitness ==
    /\ IsKey(event, NavKeys)
    /\ event.candidate # <<>>
    /\ data_new_option # <<>>
    /\ data_new_option # event.candidate
    /\ selectedIndex # 0
    /\ AttrValue(options_div, data_new_option[1]) # NativeValue
    /\ display # NativeRows[selectedIndex].text
    /\ change_events = 0


\* C23: committing a value that matches no option known to the widget is
\* rejected and leaves the committed value, the displayed text, the
\* candidate, the anchor and the shown list unchanged, with no change event;
\* only the value of a known option is committed.
UnknownValueCommitRejected ==
    [][ (event'.type = "commit" /\ event'.target = 0) =>
            (change_events' = 0 /\ UNCHANGED widget) ]_vars


\* C24: after the <select>'s options have changed, the widget's rows are
\* rebuilt, so that in every state reached afterwards by an operation of the
\* widget they are the <select>'s options.
RowsFollowNativeOptions ==
    event.type # "options" => (full_replacement => WidgetRows = NativeRows)


\* C27: the anchor is captured once per navigation session: the first
\* navigation key that produces a candidate stores the option committed at
\* that moment (the row of the native control's value) as the anchor, also
\* in a session begun after a commit, a cancel or a close, and no later
\* navigation key of the session overwrites it.
AnchorCapturedOncePerSession ==
    [][ /\ (data_current_option = <<>> /\ data_current_option' # <<>>) =>
               /\ IsKey(event', NavKeys)
               /\ data_current_option' =
                      << FindByValue(options_div, NativeValue) >>
        /\ (data_current_option # <<>> /\ IsKey(event', NavKeys)) =>
               UNCHANGED data_current_option ]_vars


\* The rows of the first option of the group at top-level position t, and of
\* the top-level option at position t.
FirstOfGroup(layout, t) ==
    { k \in FindOptions(layout) :
          Rows(layout)[k].top = t /\ Rows(layout)[k].sub = 1 }
TopLevelRow(layout, t) ==
    { k \in FindOptions(layout) :
          Rows(layout)[k].top = t /\ Rows(layout)[k].sub = 0 }

\* Row k is the last option of its group.
LastInGroup(layout, k) ==
    LET r == Rows(layout)[k] IN
    r.sub > 0 /\ r.sub = Len(layout[r.top].opts)

\* The element after row k's top-level element is a group with an option /
\* is an option.
GroupFollows(layout, k) ==
    LET t == Rows(layout)[k].top IN
    /\ t < Len(layout)
    /\ layout[t + 1].kind = "optgroup"
    /\ layout[t + 1].opts # <<>>
OptionFollows(layout, k) ==
    LET t == Rows(layout)[k].top IN
    t < Len(layout) /\ layout[t + 1].kind = "option"

\* C28: DOWN from the last option of a group makes the first option of the
\* immediately following group the candidate, or, when an option and no
\* group follows the group, that top-level option; DOWN from a top-level
\* option followed by a group makes the first option of that group the
\* candidate; DOWN at the last option of all changes nothing.
DownGroupBoundaryPolicy ==
    [][ IsKey(event', {DOWN}) =>
          \A k \in 1 .. N :
            CurrentOption = {k} =>
              LET t == WidgetRows[k].top IN
              /\ (LastInGroup(options_div, k) /\ GroupFollows(options_div, k))
                    => data_new_option' = << FirstOfGroup(options_div, t + 1) >>
              /\ (LastInGroup(options_div, k) /\ OptionFollows(options_div, k))
                    => data_new_option' = << TopLevelRow(options_div, t + 1) >>
              /\ (WidgetRows[k].sub = 0 /\ GroupFollows(options_div, k))
                    => data_new_option' = << FirstOfGroup(options_div, t + 1) >>
              /\ k = N => (change_events' = 0 /\ UNCHANGED widget) ]_vars

DownGroupBoundaryPolicyWitness ==
    /\ IsKey(event, {DOWN})
    /\ event.candidate # <<>>
    /\ data_new_option # <<>>
    /\ \E k \in 2 .. N :
          /\ event.candidate = << {k - 1} >>
          /\ LastInGroup(options_div, k - 1)
          /\ data_new_option = << {k} >>
          /\ WidgetRows[k].sub = 1
          /\ highlight = {k}

\* C29: for every layout of options and groups, also with a group that has
\* no option, DOWN from an option that is not the last in document order
\* makes its successor the candidate, and UP from an option that is not the
\* first makes its predecessor the candidate.
TraversalFollowsDocumentOrder ==
    [][ \A k \in 1 .. N :
          CurrentOption = {k} =>
            /\ (IsKey(event', {DOWN}) /\ k < N)
                  => data_new_option' = << {k + 1} >>
            /\ (IsKey(event', {UP}) /\ k > 1)
                  => data_new_option' = << {k - 1} >> ]_vars


\* The text of the committed option: the native control's selected option.
CommittedText == IF selectedIndex = 0 THEN "" ELSE NativeRows[selectedIndex].text

\* C30: in every reachable state the displayed text is the candidate's text
\* when a candidate is present and the list is shown, and the committed
\* option's text otherwise, also after native change / keyup events and
\* 'update' calls that arrive while a candidate is present.
DisplayIsFunctionOfSelection ==
    display = IF data_new_option # <<>> /\ show
              THEN Html(options_div, data_new_option[1])
              ELSE CommittedText


\* C31: in every reachable state exactly one option row is highlighted
\* when a candidate is present, and that row is the candidate's; no row is
\* highlighted when no candidate is present.
HighlightIsCandidate ==
    /\ data_new_option # <<>> =>
          (Cardinality(highlight) = 1 /\ highlight = data_new_option[1])
    /\ data_new_option = <<>> => highlight = {}


\* C32: a click outside the option rows flips the expanded flag and leaves
\* the candidate and the anchor exactly as they were before the click.
ToggleKeepsCandidateAndAnchor ==
    [][ ClickedOutside(event') =>
          /\ show' = ~show
          /\ data_new_option' = data_new_option
          /\ data_current_option' = data_current_option ]_vars

ToggleKeepsCandidateAndAnchorWitness ==
    /\ ClickedOutside(event)
    /\ ~event.shown
    /\ event.candidate # <<>>
    /\ show
    /\ data_new_option = event.candidate
    /\ data_current_option # <<>>

\* C33: a keydown of a key that is none of DOWN, UP, PAGE_DOWN, PAGE_UP,
\* ENTER, TAB and ESCAPE leaves the candidate, the anchor, the highlight,
\* the displayed text, the current value, the expanded flag and the native
\* value unchanged, and fires no change event.
OtherKeyChangesNothing ==
    [][ IsKey(event', Keys \ (NavKeys \cup {ENTER, TAB, ESCAPE})) =>
          (change_events' = 0 /\ UNCHANGED widget) ]_vars

OtherKeyChangesNothingWitness ==
    /\ IsKey(event, Keys \ (NavKeys \cup {ENTER, TAB, ESCAPE}))
    /\ FromOpenCandidate
    /\ OpenCandidate
    /\ data_new_option = event.candidate
    /\ highlight = data_new_option[1]


\* C36: in every reachable state in which no candidate is present the
\* displayed text is the text of the native control's selected option and
\* the current value is the native control's value, whatever the
\* interleaving of widget events with native change events.
SyncedWithoutCandidate ==
    data_new_option = <<>> => SyncedWithNative

\* C39: a focusout received while the pointer hovers the option list changes
\* nothing and fires no change event; a click on an option row that follows
\* such a focusout received in Open-Candidate fires one change event, sets
\* the native value to the clicked row's value and closes the list.
HoverFocusoutThenClickCommitsRow ==
    [][ /\ (event'.type = "focusout" /\ event'.hover)
            => (change_events' = 0 /\ UNCHANGED widget)
        /\ ( /\ event.type = "focusout" /\ event.hover /\ FromOpenCandidate
             /\ event'.type = "click" /\ event'.target > 0 )
            => /\ change_events = 0
               /\ change_events' = 1
               /\ NativeValue' = WidgetRows[event'.target].value
               /\ display' = WidgetRows[event'.target].text
               /\ Closed' ]_vars

HoverFocusoutThenClickCommitsRowWitness ==
    /\ event.type = "focusout" /\ event.hover
    /\ FromOpenCandidate
    /\ OpenCandidate
    /\ data_new_option = event.candidate
    /\ change_events = 0
    /\ \E k \in 1 .. N : data_new_option # << {k} >>


\* The handler that just ran committed: a click on an option row, ENTER or
\* TAB with a candidate, or a focusout (pointer elsewhere) on a shown list
\* with a candidate.
CommitEvent ==
    \/ event.type = "click" /\ event.target > 0
    \/ IsKey(event, {ENTER, TAB}) /\ event.candidate # <<>>
    \/ event.type = "focusout" /\ ~event.hover /\ FromOpenCandidate

\* The value attribute of the row the handler committed.
CommittedRowValue ==
    IF event.type = "click" THEN WidgetRows[event.target].value
    ELSE CandidateValue(event.candidate)

\* C35: every commit (click on an option row, ENTER / TAB with a candidate,
\* focusout with a candidate) sets the native value to the committed row's
\* value and fires exactly one change event, whose listeners run with the
\* new native value and with the candidate, the anchor, the highlight and
\* the expanded flag still as they were when the handler began; afterwards
\* all four are cleared. This includes a commit of the committed value.
CommitDispatchesBeforeClearing ==
    [][ CommitEvent' =>
          /\ change_events' = 1
          /\ NativeValue' = CommittedRowValue'
          /\ dispatched' = << [selectedIndex |-> selectedIndex',
                               shown |-> show,
                               highlight |-> highlight,
                               candidate |-> data_new_option,
                               anchor |-> data_current_option] >>
          /\ Closed' /\ highlight' = {} ]_vars

CommitDispatchesBeforeClearingWitness ==
    /\ IsKey(event, {ENTER, TAB})
    /\ FromOpenCandidate
    /\ change_events = 1
    /\ dispatched # <<>>
    /\ dispatched[1].shown
    /\ dispatched[1].candidate # <<>>
    /\ dispatched[1].highlight = dispatched[1].candidate[1]
    /\ dispatched[1].candidate[1] = {selectedIndex}
    /\ dispatched[1].anchor = << {selectedIndex} >>
    /\ Closed


\* The option list of every full-replacement container has a max-height of
\* exactly half the viewport height.
EveryFullSurfaceHalved ==
    \A s \in FullSurfaces :
        LET m == page.surfaces[s[1]][s[2]].max_height IN
        m # <<>> /\ 2 * m[1].px + m[1].half = innerHeight

\* C37: an initialisation call that begins with every full-replacement
\* option list at half the viewport height (as on a page without widgets)
\* ends with every one of them, not only the first initialised, at half the
\* viewport height; so that holds after any number of initialisations for
\* as long as the window is not resized.
InitHalvesEveryFullSurface ==
    [][ (call'.method = "init" /\ EveryFullSurfaceHalved)
            => EveryFullSurfaceHalved' ]_vars

\* C38: after any number of initialisation calls, every initialised native
\* control has exactly one replacement container and one change / keyup
\* handler pair, and its data('styled_select') is the instance that owns
\* that container.
OneWidgetPerControl ==
    \A c \in Controls :
        page.instance[c] # 0 =>
            /\ Len(page.surfaces[c]) = 1
            /\ page.listeners[c] = 1
            /\ page.instance[c] = 1


=============================================================================
